---- MODULE Spec2Model ----
(***************************************************************************)
(* Model of the job-application tracker's automation engine:               *)
(*   - the status state machine (applications/services/status_tracker.py), *)
(*     the other writers of Application.status / applied_date              *)
(*     (application_manager.py, models.py, forms.py) and the save signals  *)
(*     (signals.py) that write ApplicationActivity rows;                   *)
(*   - the apply_to_job_task orchestrator (tasks/automation_tasks.py) with *)
(*     its duplicate / daily-cap guard.                                    *)
(*                                                                         *)
(* The specifications of the module:                                       *)
(*   Spec            one tracked Application and every operation that      *)
(*                   writes it (TransitionSpec: StatusTracker alone)       *)
(*   TaskSpec        the applications table of the guard and the task runs *)
(*   DuplicateSpec   ApplicationManager.check_duplicate                    *)
(*   DailyCountSpec  ApplicationManager.get_daily_application_count        *)
(*   CaptchaSpec     CaptchaSolver.wait_for_manual_solve                   *)
(*   SearchSpec      run_automated_searches                                *)
(*   RaceSpec        two executions of apply_to_job_task side by side      *)
(*   AdapterSpec     apply_to_job of the site adapters                     *)
(*   FormSpec        FormFiller.fill_personal_info and _find_form_field    *)
(*   ValidatorSpec   the transition validators of the form and the tracker *)
(***************************************************************************)
EXTENDS Integers, Sequences, FiniteSets, Bags, TLC

VARIABLES
    \* ---- one tracked Application row and its activity rows (Spec) ----
    status,         \* Application.status as persisted
    applied_date,   \* Application.applied_date as persisted (NoDate = NULL)
    activities,     \* the ApplicationActivity rows of the Application, oldest first
    last,           \* the last operation called on it and what it answered
    \* ---- wall clock, read through timezone.now() ----
    now,
    \* ---- the orchestrator (TaskSpec) ----
    apps,           \* the Application table read by the guard (a bag of rows)
    task,           \* the task message waiting in the queue for a retry, if any
    result,         \* what the last task attempt answered, and the steps it ran
    submitted,      \* how many tasks in an unbroken row, the last one included,
                    \* have ended in a successful submission for result.user
                    \* (nothing else happened in between, so all on one day)
    \* ---- calls of functions that only answer: the guard's queries, ----
    \* ---- the site adapters, the form filler, the validators        ----
    answer,         \* the last call, what it was given and what it returned
    \* ---- CaptchaSolver.wait_for_manual_solve (CaptchaSpec) ----
    solver,
    \* ---- run_automated_searches (SearchSpec) ----
    search,
    \* ---- two workers running apply_to_job_task side by side (RaceSpec) ----
    workers

trackerVars == <<status, applied_date, activities, last>>
taskVars == <<task, result, submitted>>
others == <<answer, solver, search, workers>>

vars == <<status, applied_date, activities, last, now, apps, task, result, submitted,
          answer, solver, search, workers>>

----------------------------------------------------------------------------
(* Bounds of the model *)

\* the clock stops here
MaxClock == 2
\* the clock of the daily count stops at this slot
MaxSlot == 3
\* the longest timeout given to wait_for_manual_solve, in seconds
MaxTimeout == 4
\* the longest one is_captcha_present call takes, in seconds
PollMax == 1
\* the most active AutomationRule rows a batch run finds
MaxRules == 3
\* the locator strategies of a field, from the first on, that find anything
\* on the pages tried by fill_personal_info; the rest find no element
MaxVaried == 2
\* no operation runs that would make the activity log longer than this
MaxLog == 3

\* Application.applied_date = NULL
NoDate == 0

----------------------------------------------------------------------------
(* Status state machine *)

\* Application.STATUS_CHOICES
Statuses ==
    {"saved", "applied", "screening", "interview_scheduled", "interviewed",
     "offer", "rejected", "accepted", "withdrawn"}

\* plausible slip: rejected is "mostly final" and can be reopened
VALID_TRANSITIONS_reopen ==
    [s \in Statuses |->
        CASE s = "saved" -> {"applied", "withdrawn"}
          [] s = "applied" -> {"screening", "interview_scheduled", "rejected", "withdrawn"}
          [] s = "screening" -> {"interview_scheduled", "rejected", "withdrawn"}
          [] s = "interview_scheduled" -> {"interviewed", "rejected", "withdrawn"}
          [] s = "interviewed" -> {"offer", "rejected", "withdrawn"}
          [] s = "offer" -> {"accepted", "rejected", "withdrawn"}
          [] s = "rejected" -> {"applied"}
          [] s = "accepted" -> {"withdrawn"}
          [] s = "withdrawn" -> {}]

VALID_TRANSITIONS ==
    [s \in Statuses |->
        CASE s = "saved" -> {"applied", "withdrawn"}
          [] s = "applied" -> {"screening", "interview_scheduled", "rejected", "withdrawn"}
          [] s = "screening" -> {"interview_scheduled", "rejected", "withdrawn"}
          [] s = "interview_scheduled" -> {"interviewed", "rejected", "withdrawn"}
          [] s = "interviewed" -> {"offer", "rejected", "withdrawn"}
          [] s = "offer" -> {"accepted", "rejected", "withdrawn"}
          [] s = "rejected" -> {}
          [] s = "accepted" -> {"withdrawn"}
          [] s = "withdrawn" -> {}]

\* StatusTracker.is_valid_transition
is_valid_transition(current_status, new_status) ==
    IF current_status = new_status
    THEN TRUE
    ELSE LET allowed == IF current_status \in DOMAIN VALID_TRANSITIONS
                        THEN VALID_TRANSITIONS[current_status]
                        ELSE {}
         IN new_status \in allowed

\* plausible slip: the copy of the table misses a later edit of the other
form_valid_transitions_stale ==
    [s \in Statuses |->
        CASE s = "saved" -> {"applied", "withdrawn"}
          [] s = "applied" -> {"screening", "interview_scheduled", "rejected", "withdrawn"}
          [] s = "screening" -> {"interview_scheduled", "rejected", "withdrawn"}
          [] s = "interview_scheduled" -> {"interviewed", "rejected", "withdrawn"}
          [] s = "interviewed" -> {"offer", "rejected", "withdrawn"}
          [] s = "offer" -> {"accepted", "rejected", "withdrawn"}
          [] s = "rejected" -> {}
          [] s = "accepted" -> {}
          [] s = "withdrawn" -> {}]

\* the table local to ApplicationForm._is_valid_transition
form_valid_transitions ==
    [s \in Statuses |->
        CASE s = "saved" -> {"applied", "withdrawn"}
          [] s = "applied" -> {"screening", "interview_scheduled", "rejected", "withdrawn"}
          [] s = "screening" -> {"interview_scheduled", "rejected", "withdrawn"}
          [] s = "interview_scheduled" -> {"interviewed", "rejected", "withdrawn"}
          [] s = "interviewed" -> {"offer", "rejected", "withdrawn"}
          [] s = "offer" -> {"accepted", "rejected", "withdrawn"}
          [] s = "rejected" -> {}
          [] s = "accepted" -> {"withdrawn"}
          [] s = "withdrawn" -> {}]

\* ApplicationForm._is_valid_transition
form_is_valid_transition(old_status, new_status) ==
    LET allowed == IF old_status \in DOMAIN form_valid_transitions
                   THEN form_valid_transitions[old_status]
                   ELSE {}
    IN new_status \in allowed \/ old_status = new_status

----------------------------------------------------------------------------
(* Activity rows and the save signals *)

\* one ApplicationActivity row of type status_change: who wrote it and the
\* move its description names ("Status changed from <from> to <to>[. Notes: ..]")
Entry(by, from, to, notes) == [by |-> by, from |-> from, to |-> to, notes |-> notes]

\* signals.log_application_created (post_save, created=True)
log_application_created(s) == Entry("created", s, s, "")

\* signals.log_status_change (pre_save of an existing row): compares the stored
\* status with the instance's and writes a row when they differ
log_status_change(log, stored, inst) ==
    IF stored # inst THEN Append(log, Entry("signal", stored, inst, "")) ELSE log

----------------------------------------------------------------------------
(* The operations that write Application.status, each as a function from   *)
(* the stored row (st, ad, log) to the stored row after the call.          *)
(*   inst     status of the in-memory instance after the call              *)
(*   raised   an exception left the call                                   *)

\* where a database error may strike inside StatusTracker.transition:
\*   "save"      the UPDATE of application.save() fails (after pre_save ran)
\*   "activity"  ApplicationActivity.objects.create fails
Faults == {"none", "save", "activity"}

Outcome(ok, raised, inst, st, ad, log) ==
    [ok |-> ok, raised |-> raised, inst |-> inst,
     status |-> st, applied_date |-> ad, activities |-> log]

\* plausible slip: the new status is assigned and saved before it is validated
transition_save_first(st, ad, log, new_status, notes, fault) ==
    IF ~is_valid_transition(st, new_status)
    THEN Outcome(FALSE, FALSE, new_status, new_status, ad,
                 log_status_change(log, st, new_status))
    ELSE Outcome(TRUE, FALSE, new_status, new_status, ad,
                 Append(log_status_change(log, st, new_status),
                        Entry("tracker", st, new_status, notes)))

\* StatusTracker.transition(application, new_status, user, notes); every
\* statement runs in autocommit (no transaction.atomic, no ATOMIC_REQUESTS)
transition(st, ad, log, new_status, notes, fault) ==
    LET current == st IN
    IF ~is_valid_transition(current, new_status)
    THEN Outcome(FALSE, FALSE, st, st, ad, log)
    ELSE LET old_status == st
             \* application.save(): pre_save signal, then the UPDATE
             signalled == log_status_change(log, st, new_status)
         IN IF fault = "save"
            THEN Outcome(FALSE, TRUE, new_status, st, ad, signalled)
            ELSE IF fault = "activity"
            THEN Outcome(FALSE, TRUE, new_status, new_status, ad, signalled)
            ELSE Outcome(TRUE, FALSE, new_status, new_status, ad,
                         Append(signalled, Entry("tracker", old_status, new_status, notes)))

\* ApplicationManager.update_status(application, new_status, user, notes)
update_status(st, ad, log, new_status, notes, t) ==
    LET old_status == st
        ad2 == IF new_status = "applied" /\ ad = NoDate THEN t ELSE ad
    IN Outcome(TRUE, FALSE, new_status, new_status, ad2,
               Append(log_status_change(log, st, new_status),
                      Entry("manager", old_status, new_status, notes)))

\* Application.mark_as_applied()
mark_as_applied(st, ad, log, t) ==
    Outcome(TRUE, FALSE, "applied", "applied", t, log_status_change(log, st, "applied"))

\* ApplicationUpdateView with ApplicationForm: clean() validates the posted
\* status against the stored one, form.save() then saves the instance
\* (applied_date is not a field of the form)
form_save(st, ad, log, new_status) ==
    IF ~form_is_valid_transition(st, new_status)
    THEN Outcome(FALSE, FALSE, st, st, ad, log)
    ELSE Outcome(TRUE, FALSE, new_status, new_status, ad,
                 log_status_change(log, st, new_status))

\* ApplicationViewSet.update_status: what the PATCH .../status/ call answers
\* after tracker.transition returned `out` (an escaped exception is a 500)
api_response(out, new_status) ==
    IF out.raised THEN [code |-> 500, from |-> "", to |-> ""]
    ELSE IF out.ok THEN [code |-> 200, from |-> out.inst, to |-> out.inst]
    ELSE [code |-> 400, from |-> out.inst, to |-> new_status]

NoResponse == [code |-> 0, from |-> "", to |-> ""]

----------------------------------------------------------------------------
(* Actions on the tracked Application *)

\* the notes of a status-update request: none, or some text
Notes == {"", "n"}

Called(op, new_status, out, resp) ==
    [op |-> op, old |-> status, new |-> new_status, ok |-> out.ok,
     raised |-> out.raised, n0 |-> Len(activities), ad0 |-> applied_date,
     log0 |-> activities, resp |-> resp]

Store(op, new_status, out, resp) ==
    /\ Len(out.activities) <= MaxLog
    /\ status' = out.status
    /\ applied_date' = out.applied_date
    /\ activities' = out.activities
    /\ last' = Called(op, new_status, out, resp)
    /\ UNCHANGED <<now, apps, task, result, submitted, others>>

\* PATCH /applications/<pk>/status/ : serializer-validated status, then
\* StatusTracker.transition on the freshly loaded row
ApiUpdateStatus ==
    \E new_status \in Statuses, notes \in Notes, fault \in Faults :
        LET out == transition(status, applied_date, activities, new_status, notes, fault)
        IN /\ (fault # "none" => is_valid_transition(status, new_status))
           /\ Store("transition", new_status, out, api_response(out, new_status))

\* ApplicationManager.update_status called with its default notes=''
ManagerUpdateStatus ==
    \E new_status \in Statuses :
        Store("update_status", new_status,
              update_status(status, applied_date, activities, new_status, "", now),
              NoResponse)

MarkAsApplied ==
    Store("mark_as_applied", "applied",
          mark_as_applied(status, applied_date, activities, now), NoResponse)

FormSave ==
    \E new_status \in Statuses :
        Store("form_save", new_status,
              form_save(status, applied_date, activities, new_status), NoResponse)

\* time passes
Tick ==
    /\ now < MaxClock
    /\ now' = now + 1
    /\ UNCHANGED <<status, applied_date, activities, last, apps, task, result, submitted, others>>

----------------------------------------------------------------------------
(* Specification of the tracked Application *)

\* no task has run and the guard's table is empty
NoTask ==
    [state |-> "idle", user |-> "", job_url |-> "", job_board |-> "",
     cv_id |-> 0, dry_run |-> FALSE, retries |-> 0]

NoResult ==
    [kind |-> "none", success |-> FALSE, message |-> "", job_url |-> "",
     job_board |-> "", user |-> "", cv_path |-> 0, trace |-> <<>>,
     driver_open |-> FALSE, executions |-> 0, dry_run |-> FALSE]

\* nothing asked, nothing waiting, no batch run, no worker busy
NoAnswer == [op |-> "none"]
NoSolver ==
    [pc |-> "idle", timeout |-> 0, t |-> 0, start |-> 0, marker |-> FALSE,
     ret |-> "none", polls |-> 0, sleeps |-> 0, clear |-> FALSE]
NoSearch == [op |-> "none"]
Workers == {1, 2}
IdleWorker == [pc |-> "idle", user |-> "", job_url |-> "", message |-> ""]
NoWorkers == [w \in Workers |-> IdleWorker]

OthersQuiet ==
    /\ answer = NoAnswer
    /\ solver = NoSolver
    /\ search = NoSearch
    /\ workers = NoWorkers

TaskQuiet ==
    /\ apps = EmptyBag
    /\ task = NoTask
    /\ result = NoResult
    /\ submitted = 0
    /\ OthersQuiet

\* a freshly created Application: any status may be given at creation
\* (ApplicationManager.create_application, the create form), applied_date is
\* NULL and the post_save signal has logged the creation
Init ==
    /\ status \in Statuses
    /\ applied_date = NoDate
    /\ activities = <<log_application_created(status)>>
    /\ last = [op |-> "create", old |-> status, new |-> status, ok |-> TRUE,
               raised |-> FALSE, n0 |-> 0, ad0 |-> NoDate, log0 |-> <<>>,
               resp |-> NoResponse]
    /\ now = 1
    /\ TaskQuiet

Next ==
    \/ ApiUpdateStatus
    \/ ManagerUpdateStatus
    \/ MarkAsApplied
    \/ FormSave
    \/ Tick

Spec == Init /\ [][Next]_vars

\* only StatusTracker.transition calls (through the status-update endpoint)
\* and the clock
TransitionNext ==
    \/ ApiUpdateStatus
    \/ Tick

TransitionSpec == Init /\ [][TransitionNext]_vars

----------------------------------------------------------------------------
(* Claims about the status state machine *)

\* the edge table as the specification gives it, as a set of (old, new) pairs
SpecEdges ==
    {<<"saved", "applied">>, <<"saved", "withdrawn">>,
     <<"applied", "screening">>, <<"applied", "interview_scheduled">>,
     <<"applied", "rejected">>, <<"applied", "withdrawn">>,
     <<"screening", "interview_scheduled">>, <<"screening", "rejected">>,
     <<"screening", "withdrawn">>,
     <<"interview_scheduled", "interviewed">>, <<"interview_scheduled", "rejected">>,
     <<"interview_scheduled", "withdrawn">>,
     <<"interviewed", "offer">>, <<"interviewed", "rejected">>,
     <<"interviewed", "withdrawn">>,
     <<"offer", "accepted">>, <<"offer", "rejected">>, <<"offer", "withdrawn">>,
     <<"accepted", "withdrawn">>}

SpecAllows(old, new) == old = new \/ <<old, new>> \in SpecEdges

Terminal == {"rejected", "withdrawn"}

StatusWriters == {"transition", "update_status", "mark_as_applied", "form_save"}

\* C1: for every pair (old, new) of the nine statuses is_valid_transition is
\* true exactly when old = new or (old, new) is an edge of the fixed table, so
\* rejected and withdrawn have no valid target but themselves; and a
\* transition call that does not raise answers accordingly.
C1_ValidTransitionMatchesTable ==
    /\ \A old \in Statuses, new \in Statuses :
          is_valid_transition(old, new) <=> SpecAllows(old, new)
    /\ \A old \in Terminal, new \in Statuses :
          is_valid_transition(old, new) => new = old
    /\ (last.op = "transition" /\ ~last.raised)
          => (last.ok <=> SpecAllows(last.old, last.new))

C1_Witness ==
    /\ last.op = "transition"
    /\ last.old = "rejected"
    /\ last.new = "interview_scheduled"
    /\ ~last.ok
    /\ ~last.raised

\* C2: a transition to a status not reachable from the current one returns
\* False without raising and leaves the stored status, applied_date and
\* activity log as they were; the status-update call answers 400 naming the
\* unchanged current status and the requested one.
C2_RejectedTransitionChangesNothing ==
    (last.op = "transition" /\ ~SpecAllows(last.old, last.new))
        => /\ ~last.ok
           /\ ~last.raised
           /\ status = last.old
           /\ applied_date = last.ad0
           /\ activities = last.log0
           /\ last.resp = [code |-> 400, from |-> status, to |-> last.new]

C2_Witness ==
    /\ last.op = "transition"
    /\ last.old = "saved"
    /\ last.new = "offer"
    /\ last.resp.code = 400
    /\ status = "saved"

\* C3: a successful transition that changes the status makes the activity
\* log grow by exactly one row, counting every row written during the call.
C3_OneActivityPerTransition ==
    (last.op = "transition" /\ last.ok /\ last.old # last.new)
        => Len(activities) = last.n0 + 1

\* C4: after a successful transition to applied the applied_date is set
\* (stamped with the current time when it was unset, kept when it was set);
\* a successful transition to another status never sets it.
C4_AppliedDateStamped ==
    (last.op = "transition" /\ last.ok)
        => /\ (last.new = "applied" /\ last.ad0 = NoDate) => applied_date = now
           /\ (last.new = "applied" /\ last.ad0 # NoDate) => applied_date = last.ad0
           /\ last.new # "applied" => applied_date = last.ad0

\* C5: transition is atomic: when the call fails part-way (the save or the
\* activity write raises) neither the status change nor any activity row is
\* left persisted.
C5_TransitionAtomic ==
    (last.op = "transition" /\ last.raised)
        => /\ status = last.old
           /\ activities = last.log0

\* C6: every operation that writes the status moves it along an edge of the
\* table or leaves it where it was.
C6_StatusFollowsTable ==
    last.op \in StatusWriters => SpecAllows(last.old, status)

\* C7: once applied_date is set no operation changes or clears it.
C7_AppliedDateWrittenOnce ==
    (last.op \in StatusWriters /\ last.ad0 # NoDate) => applied_date = last.ad0

\* a step taken from a terminal status keeps it, and a transition call in
\* that step asking for another status is answered False
TerminalStays ==
    status \in Terminal =>
        /\ status' = status
        /\ (last'.op = "transition" /\ last'.new # status) => ~(last'.ok)

\* C8: once the status is rejected or withdrawn no transition call changes
\* it, and every request for a different status is answered False.
C8_TerminalIsFinal == [][TerminalStays]_vars

C8_Witness ==
    /\ status = "withdrawn"
    /\ last.op = "transition"
    /\ last.old = "withdrawn"
    /\ last.new = "applied"
    /\ ~last.ok

----------------------------------------------------------------------------
(* The guard: ApplicationManager.check_duplicate and                       *)
(* get_daily_application_count over the Application table                  *)

\* settings.MAX_DAILY_APPLICATIONS; read from the environment (default 10),
\* configured small here
MAX_DAILY_APPLICATIONS == 1
\* the table holds at most this many rows
MaxApps == 2

Users == {"u1", "u2"}
Jobs == {1, 2}
Methods == {"manual", "automated"}

\* every Job row: create_application makes a new Job row each time, so two
\* rows may carry one URL (1 and 3), and job_url may be left blank (4)
JobRows == {1, 2, 3, 4}

\* Job.job_url of each Job row
job_url_of(job) ==
    CASE job = 1 -> "a"
      [] job = 2 -> "b"
      [] job = 3 -> "a"
      [] OTHER -> ""
Urls == {job_url_of(j) : j \in Jobs}

\* an Application row, as far as the guard reads it
Row(user, job, method, ad) ==
    [user |-> user, job |-> job, application_method |-> method, applied_date |-> ad]

\* The clock counts half-days of unequal length: slot 2d is 00:00-22:00 UTC of
\* day d, slot 2d+1 is 22:00-24:00 UTC of day d.
\* timezone.now().date(): the date of the aware UTC datetime
UtcDate(t) == t \div 2
\* the __date lookup converts to the current time zone first
\* (USE_TZ = True, TIME_ZONE = Africa/Johannesburg, UTC+2)
LocalDate(t) == (t + 1) \div 2

RECURSIVE Copies(_, _)
\* number of rows of the table whose value is in S
Copies(S, table) ==
    IF S = {} THEN 0
    ELSE LET r == CHOOSE x \in S : TRUE
         IN CopiesIn(r, table) + Copies(S \ {r}, table)

\* ApplicationManager.check_duplicate(user, job_or_url) for a URL string
check_duplicate(user, job_or_url, table) ==
    IF job_or_url = "" THEN FALSE
    ELSE \E r \in BagToSet(table) :
            r.user = user /\ job_url_of(r.job) = job_or_url

\* ApplicationManager.check_duplicate(user, job_or_url) for a Job object
check_duplicate_job(user, job, table) ==
    \E r \in BagToSet(table) : r.user = user /\ r.job = job

\* ApplicationManager.get_daily_application_count(user)
get_daily_application_count(user, table, t) ==
    LET today == UtcDate(t)
    IN Copies({r \in BagToSet(table) :
                  /\ r.user = user
                  /\ r.applied_date # NoDate
                  /\ LocalDate(r.applied_date) = today
                  /\ r.application_method = "automated"}, table)

----------------------------------------------------------------------------
(* apply_to_job_task *)

\* @shared_task(max_retries=3)
max_retries == 3

\* the boards _get_site_handler knows
Handlers == {"pnet", "careers24", "linkedin", "indeed"}
\* board identifiers given to the task: a supported one and one that
\* AutomationRule.JOB_BOARD_CHOICES offers without a handler
BoardInputs == {"pnet", "careerjunction"}

\* _get_site_handler: the handler class of the board, or "" for None
get_site_handler(job_board) == IF job_board \in Handlers THEN job_board ELSE ""

\* the Document table: id -> owner, type, is_active
Documents ==
    [i \in {1, 2, 3} |->
        CASE i = 1 -> [user |-> "u1", doc_type |-> "cv", is_active |-> TRUE]
          [] i = 2 -> [user |-> "u2", doc_type |-> "cv", is_active |-> FALSE]
          [] i = 3 -> [user |-> "u1", doc_type |-> "cover_letter", is_active |-> TRUE]]

\* cv_id = None
NoCv == 0
CvIds == {NoCv} \cup DOMAIN Documents

\* plausible slip: the given CV is looked up by id alone
resolve_cv_any_owner(user, cv_id) ==
    LET given == cv_id # NoCv /\ cv_id \in DOMAIN Documents
                 /\ Documents[cv_id].doc_type = "cv"
        active == {i \in DOMAIN Documents :
                      /\ Documents[i].user = user
                      /\ Documents[i].doc_type = "cv"
                      /\ Documents[i].is_active}
    IN IF given THEN cv_id
       ELSE IF active # {} THEN CHOOSE i \in active : \A k \in active : k <= i
       ELSE NoCv

\* lines 61-76: the file of the given CV when it is a CV of the user, else
\* the file of the user's active CV (the newest first), else None. A file
\* path is modelled by the id of its Document.
resolve_cv(user, cv_id) ==
    LET own == cv_id # NoCv /\ cv_id \in DOMAIN Documents
               /\ Documents[cv_id].user = user /\ Documents[cv_id].doc_type = "cv"
        active == {i \in DOMAIN Documents :
                      /\ Documents[i].user = user
                      /\ Documents[i].doc_type = "cv"
                      /\ Documents[i].is_active}
    IN IF own THEN cv_id
       ELSE IF active # {} THEN CHOOSE i \in active : \A k \in active : k <= i
       ELSE NoCv

\* what the browser and the site do once the task gets to them
\*   start_fails       webdriver.Chrome / the driver download raises: no driver
\*   start_fails_late  the driver is created, a later call of start_browser raises
\*   apply_true/false  handler.apply_to_job returns that value
\*   apply_raises      an exception leaves the with block
\*   screenshot_raises apply_to_job returns False and take_screenshot raises
\*                     (os.makedirs stands outside its try)
Envs == {"apply_true", "apply_false", "apply_raises", "screenshot_raises",
         "start_fails", "start_fails_late"}

Answer(kind, success, message, cv_path, trace, driver_open) ==
    [kind |-> kind, success |-> success, message |-> message,
     cv_path |-> cv_path, trace |-> trace, driver_open |-> driver_open]

\* plausible slip: the retry test is off by one
on_exception_one_more(retries, cv_path, trace, driver_open) ==
    IF retries <= max_retries
    THEN Answer("retry", FALSE, "Task failed", cv_path, trace, driver_open)
    ELSE Answer("return", FALSE, "Task failed", cv_path, trace, driver_open)

\* except Exception: retry while retries are left, else answer the failure
on_exception(retries, cv_path, trace, driver_open) ==
    IF retries < max_retries
    THEN Answer("retry", FALSE, "Task failed", cv_path, trace, driver_open)
    ELSE Answer("return", FALSE, "Task failed", cv_path, trace, driver_open)

\* plausible slip: an unverified submission is handed to the retry policy
run_automation_retry_unverified(retries, cv_path, trace, env) ==
    LET started == Append(trace, "start_browser")
        applied == Append(started, "apply_to_job")
        shot == Append(Append(applied, "take_screenshot"), "close_browser")
    IN CASE env = "start_fails" ->
              on_exception(retries, cv_path, started, FALSE)
         [] env = "start_fails_late" ->
              on_exception(retries, cv_path, started, TRUE)
         [] env = "apply_true" ->
              Answer("return", TRUE, "Application submitted successfully", cv_path,
                     Append(applied, "close_browser"), FALSE)
         [] env = "apply_false" ->
              IF retries < max_retries
              THEN Answer("retry", FALSE, "Application submission could not be verified",
                          cv_path, shot, FALSE)
              ELSE Answer("return", FALSE, "Application submission could not be verified",
                          cv_path, shot, FALSE)
         [] env = "apply_raises" ->
              on_exception(retries, cv_path, Append(applied, "close_browser"), FALSE)
         [] env = "screenshot_raises" ->
              on_exception(retries, cv_path, shot, FALSE)

\* lines 94-110: with BrowserManager() as browser: apply, screenshot on failure
run_automation(retries, cv_path, trace, env) ==
    LET started == Append(trace, "start_browser")
        applied == Append(started, "apply_to_job")
    IN CASE env = "start_fails" ->
              on_exception(retries, cv_path, started, FALSE)
         [] env = "start_fails_late" ->
              \* __enter__ raised: __exit__ never runs, nobody quits the driver
              on_exception(retries, cv_path, started, TRUE)
         [] env = "apply_true" ->
              Answer("return", TRUE, "Application submitted successfully", cv_path,
                     Append(applied, "close_browser"), FALSE)
         [] env = "apply_false" ->
              Answer("return", FALSE, "Application submission could not be verified",
                     cv_path,
                     Append(Append(applied, "take_screenshot"), "close_browser"), FALSE)
         [] env = "apply_raises" ->
              on_exception(retries, cv_path, Append(applied, "close_browser"), FALSE)
         [] env = "screenshot_raises" ->
              on_exception(retries, cv_path,
                           Append(Append(applied, "take_screenshot"), "close_browser"),
                           FALSE)

\* plausible slip: the handler is picked before the guard checks run
attempt_handler_first(user, job_url, job_board, cv_id, dry_run, retries, table, t, env) ==
    IF get_site_handler(job_board) = ""
    THEN Answer("return", FALSE, "Unsupported job board", NoCv,
                <<"get_site_handler">>, FALSE)
    ELSE IF check_duplicate(user, job_url, table)
    THEN Answer("return", FALSE, "Already applied to this job", NoCv,
                <<"get_site_handler", "check_duplicate">>, FALSE)
    ELSE IF get_daily_application_count(user, table, t) >= MAX_DAILY_APPLICATIONS
    THEN Answer("return", FALSE, "Daily limit reached", NoCv,
                <<"get_site_handler", "check_duplicate", "get_daily_application_count">>,
                FALSE)
    ELSE LET cv_path == resolve_cv(user, cv_id)
             tr == <<"get_site_handler", "check_duplicate",
                     "get_daily_application_count", "resolve_cv">>
         IN IF cv_path = NoCv
            THEN Answer("return", FALSE, "No CV found", NoCv, tr, FALSE)
            ELSE IF dry_run
            THEN Answer("return", TRUE, "Dry run completed", cv_path, tr, FALSE)
            ELSE run_automation(retries, cv_path, tr, env)

\* plausible slip: the dry-run flag is looked at only after the handler lookup
attempt_dry_run_late(user, job_url, job_board, cv_id, dry_run, retries, table, t, env) ==
    IF check_duplicate(user, job_url, table)
    THEN Answer("return", FALSE, "Already applied to this job", NoCv,
                <<"check_duplicate">>, FALSE)
    ELSE IF get_daily_application_count(user, table, t) >= MAX_DAILY_APPLICATIONS
    THEN Answer("return", FALSE, "Daily limit reached", NoCv,
                <<"check_duplicate", "get_daily_application_count">>, FALSE)
    ELSE LET cv_path == resolve_cv(user, cv_id)
             tr == <<"check_duplicate", "get_daily_application_count", "resolve_cv">>
         IN IF cv_path = NoCv
            THEN Answer("return", FALSE, "No CV found", NoCv, tr, FALSE)
            ELSE IF get_site_handler(job_board) = ""
            THEN Answer("return", FALSE, "Unsupported job board", cv_path,
                        Append(tr, "get_site_handler"), FALSE)
            ELSE IF dry_run
            THEN Answer("return", TRUE, "Dry run completed", cv_path,
                        Append(tr, "get_site_handler"), FALSE)
            ELSE run_automation(retries, cv_path, Append(tr, "get_site_handler"), env)

\* one execution of apply_to_job_task (lines 39-124) for a user that exists
\* and has a profile; trace lists the collaborators called, in order
attempt(user, job_url, job_board, cv_id, dry_run, retries, table, t, env) ==
    IF check_duplicate(user, job_url, table)
    THEN Answer("return", FALSE, "Already applied to this job", NoCv,
                <<"check_duplicate">>, FALSE)
    ELSE IF get_daily_application_count(user, table, t) >= MAX_DAILY_APPLICATIONS
    THEN Answer("return", FALSE, "Daily limit reached", NoCv,
                <<"check_duplicate", "get_daily_application_count">>, FALSE)
    ELSE LET cv_path == resolve_cv(user, cv_id)
             tr == <<"check_duplicate", "get_daily_application_count", "resolve_cv">>
         IN IF cv_path = NoCv
            THEN Answer("return", FALSE, "No CV found", NoCv, tr, FALSE)
            ELSE IF dry_run
            THEN Answer("return", TRUE, "Dry run completed", cv_path, tr, FALSE)
            ELSE IF get_site_handler(job_board) = ""
            THEN Answer("return", FALSE, "Unsupported job board", cv_path,
                        Append(tr, "get_site_handler"), FALSE)
            ELSE run_automation(retries, cv_path, Append(tr, "get_site_handler"), env)

Has(trace, step) == \E i \in 1..Len(trace) : trace[i] = step

\* the arguments and outcomes an execution never reads are left at their
\* defaults (cv_id=None, dry_run=False; the browser is not consulted)
ReadsOnly(a, cv_id, dry_run, env) ==
    /\ ~Has(a.trace, "resolve_cv") => (cv_id = NoCv /\ dry_run = FALSE)
    /\ ~Has(a.trace, "start_browser") => env = "apply_true"

\* the state after one execution answered `a`
Finish(a, user, job_url, job_board, cv_id, dry_run, retries) ==
    /\ result' = [kind |-> a.kind, success |-> a.success, message |-> a.message,
                  job_url |-> job_url, job_board |-> job_board, user |-> user,
                  cv_path |-> a.cv_path, trace |-> a.trace,
                  driver_open |-> a.driver_open, executions |-> retries + 1,
                  dry_run |-> dry_run]
    /\ task' = IF a.kind = "retry"
               THEN [state |-> "retry", user |-> user, job_url |-> job_url,
                     job_board |-> job_board, cv_id |-> cv_id, dry_run |-> dry_run,
                     retries |-> retries + 1]
               ELSE NoTask
    /\ submitted' = IF a.success /\ Has(a.trace, "apply_to_job")
                    THEN (IF result.user = user THEN submitted + 1 ELSE 1)
                    ELSE 0
    /\ UNCHANGED <<status, applied_date, activities, last, now, apps, others>>

\* a worker takes a new task message from the queue and executes it; tasks
\* run one after another
RunTask ==
    /\ task.state = "idle"
    /\ submitted <= MAX_DAILY_APPLICATIONS
    /\ \E user \in Users, job_url \in Urls, job_board \in BoardInputs,
          cv_id \in CvIds, dry_run \in BOOLEAN, env \in Envs :
          LET a == attempt(user, job_url, job_board, cv_id, dry_run, 0, apps, now, env)
          IN /\ ReadsOnly(a, cv_id, dry_run, env)
             /\ Finish(a, user, job_url, job_board, cv_id, dry_run, 0)

\* self.retry: the same message is executed again after the retry delay
RetryTask ==
    /\ task.state = "retry"
    /\ \E env \in Envs :
          LET a == attempt(task.user, task.job_url, task.job_board, task.cv_id,
                           task.dry_run, task.retries, apps, now, env)
          IN /\ ~Has(a.trace, "start_browser") => env = "apply_true"
             /\ Finish(a, task.user, task.job_url, task.job_board, task.cv_id,
                       task.dry_run, task.retries)

\* a user records an Application by hand (create form, create_application)
CreateApplication ==
    /\ BagCardinality(apps) < MaxApps
    /\ \E user \in Users, job \in Jobs, method \in Methods :
          apps' = apps (+) SetToBag({Row(user, job, method, NoDate)})
    /\ submitted' = 0
    /\ UNCHANGED <<status, applied_date, activities, last, now, task, result, others>>

\* Application.mark_as_applied() on a row of the table
MarkRowApplied ==
    /\ \E r \in BagToSet(apps) :
          /\ r.applied_date # now
          /\ apps' = (apps (-) SetToBag({r}))
                        (+) SetToBag({Row(r.user, r.job, r.application_method, now)})
    /\ submitted' = 0
    /\ UNCHANGED <<status, applied_date, activities, last, now, task, result, others>>

\* the tracked Application of the other specification stays as created
TaskInit ==
    /\ status = "saved"
    /\ applied_date = NoDate
    /\ activities = <<log_application_created("saved")>>
    /\ last = [op |-> "create", old |-> "saved", new |-> "saved", ok |-> TRUE,
               raised |-> FALSE, n0 |-> 0, ad0 |-> NoDate, log0 |-> <<>>,
               resp |-> NoResponse]
    /\ now = 2
    /\ TaskQuiet

TaskNext ==
    \/ RunTask
    \/ RetryTask
    \/ CreateApplication
    \/ MarkRowApplied

TaskSpec == TaskInit /\ [][TaskNext]_vars

----------------------------------------------------------------------------
(* Claims about the orchestrator *)

Before(trace, first, later) ==
    \A i \in 1..Len(trace) :
        trace[i] = later => \E j \in 1..(i - 1) : trace[j] = first

NoBrowserNoHandler(r) ==
    /\ ~Has(r.trace, "get_site_handler")
    /\ ~Has(r.trace, "start_browser")
    /\ ~r.driver_open

\* a step in which a task execution ran on the table `apps` and answered result'
GuardFirst ==
    apps' = apps =>
        LET r == result'
            dup == check_duplicate(r.user, r.job_url, apps)
            capped == get_daily_application_count(r.user, apps, now)
                          >= MAX_DAILY_APPLICATIONS
        IN /\ Before(r.trace, "check_duplicate", "get_site_handler")
           /\ Before(r.trace, "get_daily_application_count", "get_site_handler")
           /\ Before(r.trace, "check_duplicate", "start_browser")
           /\ Before(r.trace, "get_daily_application_count", "start_browser")
           /\ dup => /\ r.kind = "return"
                     /\ ~r.success
                     /\ r.message = "Already applied to this job"
                     /\ NoBrowserNoHandler(r)
           /\ (~dup /\ capped) => /\ r.kind = "return"
                                  /\ ~r.success
                                  /\ r.message = "Daily limit reached"
                                  /\ NoBrowserNoHandler(r)

\* C9: in every execution of apply_to_job_task the duplicate check and the
\* daily-cap check come before the handler is picked and before the browser
\* is started; a duplicate is answered success=false 'already applied', and
\* (the duplicate check passed) a daily count >= the maximum is answered
\* success=false citing the limit, for supported and unsupported boards
\* alike, no handler picked and no browser started.
C9_GuardBeforeBrowser == [][GuardFirst]_vars

C9_Witness ==
    /\ result.kind = "return"
    /\ result.message = "Daily limit reached"
    /\ result.job_board = "careerjunction"
    /\ ~result.success
    /\ ~Has(result.trace, "start_browser")
    /\ get_daily_application_count(result.user, apps, now) > MAX_DAILY_APPLICATIONS

\* C10: tasks of one user run one after another on one day: the number that
\* end in a successful non-dry-run submission never exceeds the configured
\* daily maximum.
C10_DailyCapHolds == submitted <= MAX_DAILY_APPLICATIONS

\* a task execution that ended in a real submission: the adapter's
\* apply_to_job returned true (the run was not a dry run)
Submitted(r) == r.kind = "return" /\ r.success /\ Has(r.trace, "apply_to_job")

\* C11: when the adapter's apply_to_job returned true in a non-dry-run task,
\* the task returns success with an Application of that user for that job in
\* the table whose appliedDate is set.
C11_SuccessRecordsApplication ==
    Submitted(result) =>
        \E r \in BagToSet(apps) :
            /\ r.user = result.user
            /\ job_url_of(r.job) = result.job_url
            /\ r.applied_date # NoDate

\* a step in which a task execution ran with dry_run=True and the duplicate,
\* daily-cap and CV checks passed on the table `apps`
DryRunStep ==
    /\ result' # result
    /\ result'.dry_run
    /\ ~check_duplicate(result'.user, result'.job_url, apps)
    /\ get_daily_application_count(result'.user, apps, now) < MAX_DAILY_APPLICATIONS
    /\ result'.cv_path # NoCv

DryRunTouchesNothing ==
    DryRunStep =>
        /\ result'.kind = "return"
        /\ result'.success
        /\ result'.message = "Dry run completed"
        /\ NoBrowserNoHandler(result')
        /\ ~Has(result'.trace, "apply_to_job")
        /\ apps' = apps
        /\ UNCHANGED <<status, applied_date, activities>>

\* C12: a task run with dry_run=True whose duplicate, daily-cap and CV checks
\* pass returns success=true, starts no browser, picks and calls no site
\* handler, and leaves every Application and ApplicationActivity as it was.
C12_DryRunTouchesNothing == [][DryRunTouchesNothing]_vars

C12_Witness ==
    /\ result.dry_run
    /\ result.kind = "return"
    /\ result.success
    /\ result.message = "Dry run completed"
    /\ result.job_board = "careerjunction"
    /\ apps # EmptyBag
    /\ ~check_duplicate(result.user, result.job_url, apps)

\* C13 as stated: a task whose every attempt raises an unexpected exception
\* is executed at most 3 times in total.
C13_AtMostThreeExecutions == result.executions <= 3

\* C13: a task whose every attempt raises an unexpected exception is executed
\* at most max_retries + 1 = 4 times in total (the first execution and three
\* retries); the execution that finds the retries used up schedules no
\* further one and returns success=false, so the task terminates.
C13_RetriesBounded ==
    /\ result.executions <= max_retries + 1
    /\ task.state = "retry" => /\ task.retries <= max_retries
                               /\ task.retries = result.executions
                               /\ result.kind = "retry"
    /\ result.kind = "retry" => result.executions <= max_retries
    /\ (result.message = "Task failed" /\ result.executions = max_retries + 1) =>
           /\ result.kind = "return"
           /\ ~result.success
           /\ task = NoTask

C13_Witness ==
    /\ result.executions = max_retries + 1
    /\ result.message = "Task failed"
    /\ result.kind = "return"
    /\ ~result.success
    /\ task = NoTask

\* the answers of the guard (steps 2-4, 6) and of an adapter that returned False
GuardRejections ==
    {"Already applied to this job", "Daily limit reached", "No CV found",
     "Unsupported job board"}
AdapterFailure == "Application submission could not be verified"

C15_NoDriverLeftOpen ==
    Has(result.trace, "start_browser") => ~result.driver_open

----------------------------------------------------------------------------
(* The guard's queries on their own: GuardInit starts from an empty table  *)

GuardInit ==
    /\ status = "saved"
    /\ applied_date = NoDate
    /\ activities = <<log_application_created("saved")>>
    /\ last = [op |-> "create", old |-> "saved", new |-> "saved", ok |-> TRUE,
               raised |-> FALSE, n0 |-> 0, ad0 |-> NoDate, log0 |-> <<>>,
               resp |-> NoResponse]
    /\ now = 2
    /\ TaskQuiet

\* an Application is recorded by hand for any Job row
RecordApplication ==
    /\ BagCardinality(apps) < MaxApps
    /\ \E user \in Users, job \in JobRows :
          apps' = apps (+) SetToBag({Row(user, job, "manual", NoDate)})
    /\ UNCHANGED <<trackerVars, now, taskVars, answer, solver, search, workers>>

\* check_duplicate(user, job) and check_duplicate(user, job.job_url) are asked
AskDuplicate ==
    /\ \E user \in Users, job \in JobRows :
          answer' = [op |-> "check_duplicate", user |-> user, job |-> job,
                     has_application |->
                         \E r \in BagToSet(apps) : r.user = user /\ r.job = job,
                     by_job |-> check_duplicate_job(user, job, apps),
                     by_url |-> check_duplicate(user, job_url_of(job), apps)]
    /\ UNCHANGED <<trackerVars, now, apps, taskVars, solver, search, workers>>

DuplicateNext ==
    \/ RecordApplication
    \/ AskDuplicate

DuplicateSpec == GuardInit /\ [][DuplicateNext]_vars

\* C16: for a user with an Application for job j, check_duplicate(u, j) and
\* check_duplicate(u, j.job_url) are both true; for a job j' the user has no
\* Application for, check_duplicate(u, j') and check_duplicate(u, j'.job_url)
\* are both false.
C16_DuplicateByJobAndUrl ==
    answer.op = "check_duplicate" =>
        IF answer.has_application
        THEN answer.by_job /\ answer.by_url
        ELSE ~answer.by_job /\ ~answer.by_url

\* an Application of either method is recorded (for one Job row: the count
\* does not read the job)
RecordMethod ==
    /\ BagCardinality(apps) < MaxApps
    /\ \E user \in Users, method \in Methods :
          apps' = apps (+) SetToBag({Row(user, 1, method, NoDate)})
    /\ UNCHANGED <<trackerVars, now, taskVars, answer, solver, search, workers>>

\* Application.mark_as_applied(): applied_date = timezone.now()
StampApplied ==
    /\ \E r \in BagToSet(apps) :
          /\ r.applied_date # now
          /\ apps' = (apps (-) SetToBag({r}))
                        (+) SetToBag({Row(r.user, r.job, r.application_method, now)})
    /\ UNCHANGED <<trackerVars, now, taskVars, answer, solver, search, workers>>

\* time passes into the next slot
NextSlot ==
    /\ now < MaxSlot
    /\ now' = now + 1
    /\ UNCHANGED <<trackerVars, apps, taskVars, answer, solver, search, workers>>

\* the user's automated Applications whose applied_date is on the same
\* calendar day as t, the day taken in the given calendar ("local" or "utc")
DayOf(calendar, t) == IF calendar = "local" THEN LocalDate(t) ELSE UtcDate(t)

AppliedOn(calendar, user, table, t) ==
    Copies({r \in BagToSet(table) :
               /\ r.user = user
               /\ r.application_method = "automated"
               /\ r.applied_date # NoDate
               /\ DayOf(calendar, r.applied_date) = DayOf(calendar, t)}, table)

\* get_daily_application_count(user) is asked
AskDailyCount ==
    /\ \E user \in Users :
          answer' = [op |-> "get_daily_application_count", user |-> user,
                     count |-> get_daily_application_count(user, apps, now),
                     on_local_day |-> AppliedOn("local", user, apps, now),
                     on_utc_day |-> AppliedOn("utc", user, apps, now)]
    /\ UNCHANGED <<trackerVars, now, apps, taskVars, solver, search, workers>>

DailyCountNext ==
    \/ RecordMethod
    \/ StampApplied
    \/ NextSlot
    \/ AskDailyCount

DailyCountSpec == GuardInit /\ [][DailyCountNext]_vars

\* C17: get_daily_application_count(user) is the number of the user's
\* automated Applications whose appliedDate falls on the current calendar
\* day (the day taken in the configured time zone or, read loosely, in UTC);
\* manual ones, other users' and undated ones never count.
C17_DailyCountIsTodaysAutomated ==
    answer.op = "get_daily_application_count" =>
        \/ answer.count = answer.on_local_day
        \/ answer.count = answer.on_utc_day

----------------------------------------------------------------------------
(* CaptchaSolver.wait_for_manual_solve                                     *)
(* solver.t is the time since the call, solver.marker whether the page     *)
(* shows a CAPTCHA marker; the person at the browser may solve it any time *)

\* time.sleep(2)
SleepInterval == 2

\* while time.time() - start_time < timeout
loop_continues_inclusive(elapsed, timeout) == elapsed <= timeout
loop_continues(elapsed, timeout) == elapsed < timeout

\* is_captcha_present: the selectors are looked up and is_displayed is read;
\* NoSuchElementException is the only exception caught
PollOutcomes == {"answers", "raises"}

\* solver.wait_for_manual_solve(timeout) is called on some page
CallWait ==
    /\ solver.pc \in {"idle", "done"}
    /\ \E timeout \in 0..MaxTimeout, marker \in BOOLEAN :
          solver' = [pc |-> "first", timeout |-> timeout, t |-> 0, start |-> 0,
                     marker |-> marker, ret |-> "none", polls |-> 0, sleeps |-> 0,
                     clear |-> FALSE]
    /\ UNCHANGED <<trackerVars, now, apps, taskVars, answer, search, workers>>

\* one is_captcha_present call that takes d seconds, and where it leads:
\* return True when no marker is found, else `onward`
Poll(d, outcome, onward) ==
    LET polled == [solver EXCEPT !.t = @ + d, !.polls = @ + 1,
                                 !.clear = (outcome = "answers" /\ ~solver.marker)]
    IN IF outcome = "raises"
       THEN [polled EXCEPT !.pc = "done", !.ret = "raised"]
       ELSE IF ~solver.marker
       THEN [polled EXCEPT !.pc = "done", !.ret = "true"]
       ELSE [polled EXCEPT !.pc = onward]

\* lines 59-71: the check before the wait, then start_time = time.time()
FirstCheck ==
    /\ solver.pc = "first"
    /\ \E d \in 0..PollMax, outcome \in PollOutcomes :
          LET p == Poll(d, outcome, "loop")
          IN solver' = [p EXCEPT !.start = p.t]
    /\ UNCHANGED <<trackerVars, now, apps, taskVars, answer, search, workers>>

\* line 72 and lines 78-79
LoopTest ==
    /\ solver.pc = "loop"
    /\ solver' = IF loop_continues(solver.t - solver.start, solver.timeout)
                 THEN [solver EXCEPT !.pc = "poll"]
                 ELSE [solver EXCEPT !.pc = "done", !.ret = "false"]
    /\ UNCHANGED <<trackerVars, now, apps, taskVars, answer, search, workers>>

\* lines 73-75
LoopPoll ==
    /\ solver.pc = "poll"
    /\ \E d \in 0..PollMax, outcome \in PollOutcomes :
          solver' = Poll(d, outcome, "sleep")
    /\ UNCHANGED <<trackerVars, now, apps, taskVars, answer, search, workers>>

\* line 76
Sleep ==
    /\ solver.pc = "sleep"
    /\ solver' = [solver EXCEPT !.pc = "loop", !.t = @ + SleepInterval,
                                !.sleeps = @ + 1]
    /\ UNCHANGED <<trackerVars, now, apps, taskVars, answer, search, workers>>

\* the person at the browser solves the CAPTCHA: the marker goes away
HumanSolves ==
    /\ solver.pc \notin {"idle", "done"}
    /\ solver.marker
    /\ solver' = [solver EXCEPT !.marker = FALSE]
    /\ UNCHANGED <<trackerVars, now, apps, taskVars, answer, search, workers>>

CaptchaNext ==
    \/ CallWait
    \/ FirstCheck
    \/ LoopTest
    \/ LoopPoll
    \/ Sleep
    \/ HumanSolves

CaptchaSpec == GuardInit /\ [][CaptchaNext]_vars

\* what holds of a call once it has ended
WaitAnswered(s) ==
    s.pc = "done" =>
        /\ s.ret \in {"true", "false", "raised"}
        \* true exactly when a poll found no marker, and that poll is the last
        /\ s.ret = "true" <=> s.clear
        \* true at the check before the wait: at once, nothing slept
        /\ (s.ret = "true" /\ s.polls = 1) => (s.sleeps = 0 /\ s.t <= PollMax)
        \* the polls of the loop are one sleep apart
        /\ (s.ret = "true" /\ s.polls > 1) => s.sleeps = s.polls - 2
        \* false only once the timeout has elapsed, every poll having found
        \* the marker
        /\ s.ret = "false" => /\ s.t - s.start >= s.timeout
                              /\ s.sleeps = s.polls - 1
                              /\ ~s.clear
        \* the wait is over before timeout + one poll + one sleep
        /\ s.t - s.start < s.timeout + PollMax + SleepInterval
        /\ s.ret # "false" => s.t - s.start <= s.timeout + PollMax

\* a step of the solver (not of the person, not a new call) leaves the page
\* as it is
WaitStep ==
    /\ WaitAnswered(solver')
    /\ (solver'.pc # solver.pc /\ solver'.pc # "first") =>
           solver'.marker = solver.marker

----------------------------------------------------------------------------
(* run_automated_searches *)

\* what happens while one rule is processed
\*   found           search_jobs returns the jobs (one job)
\*   search_raises   the profile, the browser or search_jobs raises
\*   enqueue_raises  the search entry is appended, then queueing a task raises
\*                   (job['url'] missing, the broker unreachable)
SearchEnvs == {"found", "search_raises", "enqueue_raises"}

\* an active AutomationRule, with what its processing meets
RuleInputs ==
    {r \in [job_board : BoardInputs, apply_automatically : BOOLEAN, env : SearchEnvs] :
        \* what the run never reads is left at its default
        /\ get_site_handler(r.job_board) = "" =>
               (r.env = "found" /\ ~r.apply_automatically)
        /\ r.env = "search_raises" => ~r.apply_automatically
        /\ r.env = "enqueue_raises" => r.apply_automatically}

ActiveRuleLists == UNION {[1..n -> RuleInputs] : n \in 0..MaxRules}

SearchEntry(i) == [rule_id |-> i, kind |-> "jobs_found"]
ErrorEntry(i) == [rule_id |-> i, kind |-> "error"]

RECURSIVE search_rules(_, _, _, _)
\* lines 156-199: the loop over the active rules, from rule i on
search_rules(rules, i, results, queued) ==
    IF i > Len(rules)
    THEN [results |-> results, queued |-> queued]
    ELSE LET rule == rules[i]
         IN IF get_site_handler(rule.job_board) = ""
            THEN \* if not handler: continue
                 search_rules(rules, i + 1, results, queued)
            ELSE IF rule.env = "search_raises"
            THEN search_rules(rules, i + 1, Append(results, ErrorEntry(i)), queued)
            ELSE LET found == Append(results, SearchEntry(i))
                 IN IF ~rule.apply_automatically
                    THEN search_rules(rules, i + 1, found, queued)
                    ELSE IF rule.env = "enqueue_raises"
                    THEN search_rules(rules, i + 1, Append(found, ErrorEntry(i)), queued)
                    ELSE search_rules(rules, i + 1, found, queued + 1)

\* Celery beat runs the batch over the rules that are active
RunAutomatedSearches ==
    /\ \E rules \in ActiveRuleLists :
          LET out == search_rules(rules, 1, <<>>, 0)
          IN search' = [op |-> "run_automated_searches", rules |-> rules,
                        results |-> out.results, queued |-> out.queued,
                        rules_processed |-> Len(out.results)]
    /\ UNCHANGED <<trackerVars, now, apps, taskVars, answer, solver, workers>>

SearchNext == RunAutomatedSearches

SearchSpec == GuardInit /\ [][SearchNext]_vars

EntriesOf(i, results) == {k \in 1..Len(results) : results[k].rule_id = i}

\* C19: every active rule contributes exactly one entry, its search result
\* or its error, to the returned results, whatever was raised while another
\* rule was processed, so rules_processed is the number of active rules.
C19_OneEntryPerActiveRule ==
    search.op = "run_automated_searches" =>
        /\ \A i \in 1..Len(search.rules) :
               Cardinality(EntriesOf(i, search.results)) = 1
        /\ search.rules_processed = Len(search.rules)

----------------------------------------------------------------------------
(* Two workers run apply_to_job_task side by side: each execution is cut   *)
(* at its reads of the Application table (lines 46 and 52-54) and at the   *)
(* adapter's submission (line 100)                                         *)

\* plausible slip: the daily count is not consulted
after_count_uncapped(w, table, t) == [w EXCEPT !.pc = "apply_to_job"]

\* line 46-50
after_duplicate_check(w, table) ==
    IF check_duplicate(w.user, w.job_url, table)
    THEN [w EXCEPT !.pc = "done", !.message = "Already applied to this job"]
    ELSE [w EXCEPT !.pc = "get_daily_application_count"]

\* lines 52-59, and on to the browser session with a CV and a handler found
after_count(w, table, t) ==
    IF get_daily_application_count(w.user, table, t) >= MAX_DAILY_APPLICATIONS
    THEN [w EXCEPT !.pc = "done", !.message = "Daily limit reached"]
    ELSE [w EXCEPT !.pc = "apply_to_job"]

\* lines 100-108
after_apply(w, success) ==
    IF success
    THEN [w EXCEPT !.pc = "done", !.message = "Application submitted successfully"]
    ELSE [w EXCEPT !.pc = "done", !.message = AdapterFailure]

\* a worker takes a task message from the queue
Dispatch(w) ==
    /\ workers[w].pc \in {"idle", "done"}
    /\ \E user \in Users, job_url \in Urls :
          workers' = [workers EXCEPT ![w] =
                         [pc |-> "check_duplicate", user |-> user,
                          job_url |-> job_url, message |-> ""]]
    /\ UNCHANGED <<trackerVars, now, apps, taskVars, answer, solver, search>>

DuplicateCheck(w) ==
    /\ workers[w].pc = "check_duplicate"
    /\ workers' = [workers EXCEPT ![w] = after_duplicate_check(workers[w], apps)]
    /\ UNCHANGED <<trackerVars, now, apps, taskVars, answer, solver, search>>

CountCheck(w) ==
    /\ workers[w].pc = "get_daily_application_count"
    /\ workers' = [workers EXCEPT ![w] = after_count(workers[w], apps, now)]
    /\ UNCHANGED <<trackerVars, now, apps, taskVars, answer, solver, search>>

Apply(w) ==
    /\ workers[w].pc = "apply_to_job"
    /\ \E success \in BOOLEAN :
          workers' = [workers EXCEPT ![w] = after_apply(workers[w], success)]
    /\ UNCHANGED <<trackerVars, now, apps, taskVars, answer, solver, search>>

\* an automated Application applied today is recorded from outside the task
RecordAutomated ==
    /\ BagCardinality(apps) < MaxApps
    /\ \E user \in Users, job \in Jobs :
          apps' = apps (+) SetToBag({Row(user, job, "automated", now)})
    /\ UNCHANGED <<trackerVars, now, taskVars, answer, solver, search, workers>>

RaceNext ==
    \/ \E w \in Workers : Dispatch(w)
    \/ \E w \in Workers : DuplicateCheck(w)
    \/ \E w \in Workers : CountCheck(w)
    \/ \E w \in Workers : Apply(w)
    \/ RecordAutomated

RaceSpec == GuardInit /\ [][RaceNext]_vars

\* a step of worker w: the guard decides on the table as it stands when it
\* is read, whatever the other worker is doing, and no step of an execution
\* writes the table
ReadThenAct ==
    \A w \in Workers :
        workers'[w] # workers[w] =>
            /\ apps' = apps
            /\ workers[w].pc = "check_duplicate" =>
                   (workers'[w].pc = "get_daily_application_count"
                        <=> ~check_duplicate(workers[w].user, workers[w].job_url, apps))
            /\ workers[w].pc = "get_daily_application_count" =>
                   (workers'[w].pc = "apply_to_job"
                        <=> get_daily_application_count(workers[w].user, apps, now)
                                < MAX_DAILY_APPLICATIONS)

\* C20: the guard of apply_to_job_task is read-then-act with no lock: each
\* execution decides on what the table holds when it reads it and records
\* nothing before the submission, so two executions for one user and one job
\* URL running side by side can both pass the duplicate check and the
\* daily-cap check and both reach the adapter's submission step.
C20_GuardReadThenAct == [][ReadThenAct]_vars

C20_Witness ==
    /\ workers[1].pc = "apply_to_job"
    /\ workers[2].pc = "apply_to_job"
    /\ workers[1].user = workers[2].user
    /\ workers[1].job_url = workers[2].job_url
    /\ ~check_duplicate(workers[1].user, workers[1].job_url, apps)
    /\ get_daily_application_count(workers[1].user, apps, now) = 0

\* a task execution that submits, for the user and the job URL of the
\* successful submission just before it (nothing happened in between)
SubmitsAgain ==
    /\ submitted >= 1
    /\ Submitted(result)
    /\ submitted' = submitted + 1
    /\ Submitted(result')
    /\ result'.user = result.user
    /\ result'.job_url = result.job_url

NeverSubmitsAgain == ~SubmitsAgain

\* C21: the tasks of one user run one after another: a task for a job URL
\* that an earlier task of the user submitted successfully is answered
\* 'already applied' and starts no browser, so the job is not submitted a
\* second time.
C21_NoSecondSubmission == [][NeverSubmitsAgain]_vars

\* C22: StatusTracker.transition to the status the Application already has
\* returns True for every status and changes nothing: status, appliedDate
\* and the activity log are as before the call.
C22_SelfTransitionIsNoOp ==
    (last.op = "transition" /\ last.old = last.new /\ ~last.raised) =>
        /\ last.ok
        /\ status = last.old
        /\ applied_date = last.ad0
        /\ activities = last.log0

----------------------------------------------------------------------------
(* The site adapters: apply_to_job of PNetHandler, Careers24Handler,       *)
(* IndeedHandler (one shape, different selectors) and LinkedInHandler      *)

\* max_steps = 5
max_steps == 5

\* the aria-labels of the controls _complete_easy_apply looks for
Labels == {"Continue to next step", "Review your application", "Submit application"}
\* 'submit' in button_text.lower()
is_submit_label(label) == label = "Submit application"

\* the controls the Easy Apply dialog shows step by step; past the end of
\* the list none is found. Nothing is read after a submit control or after
\* max_steps steps.
ControlLists ==
    {c \in UNION {[1..n -> Labels] : n \in 0..max_steps} :
        \A i \in 1..Len(c) : is_submit_label(c[i]) => i = Len(c)}

\* what the site shows to one apply_to_job call
\*   apply_button   the apply control was found (and clicked)
\*   login_page     the click led to a login page; login_ok: login() succeeded
\*   captcha        the page carries a visible CAPTCHA marker
\*   raises         a driver call after the form appeared raises
\*   submit_click   wait_and_click on the submit control succeeded
\*   phrase         the page source holds one of the success phrases
\*   controls       the Easy Apply controls (LinkedIn)
Pages(board) ==
    {p \in [apply_button : BOOLEAN, login_page : BOOLEAN, login_ok : BOOLEAN,
            captcha : BOOLEAN, raises : BOOLEAN, submit_click : BOOLEAN,
            phrase : BOOLEAN, controls : ControlLists] :
        \* what a call cannot read is left at its default
        /\ ~p.apply_button =>
               (~p.login_page /\ ~p.captcha /\ ~p.raises /\ p.controls = <<>>)
        /\ (~p.login_page \/ board = "linkedin") => ~p.login_ok
        /\ board = "linkedin" => (~p.login_page /\ ~p.submit_click /\ ~p.phrase)
        /\ board # "linkedin" => p.controls = <<>>
        /\ (p.login_page /\ ~p.login_ok) => (~p.captcha /\ ~p.raises)
        /\ (~p.apply_button \/ (p.login_page /\ ~p.login_ok) \/ p.raises) =>
               (~p.submit_click /\ ~p.phrase)
        /\ (p.raises /\ board = "linkedin") =>
               (p.controls # <<>> /\ is_submit_label(p.controls[Len(p.controls)]))}

\* BaseSiteHandler.verify_submission
verify_submission(page) == page.phrase

Returned(ret, trace, iterations) ==
    [ret |-> ret, trace |-> trace, iterations |-> iterations]

\* apply_to_job of the PNet, Careers24 and Indeed handlers
form_apply_to_job(page) ==
    LET opened == <<"navigate_to", "dismiss_popups", "click_apply">>
        logged == IF page.login_page THEN Append(opened, "login") ELSE opened
        filled == logged \o <<"fill_form", "upload_document">>
        sent == filled \o <<"click_submit", "verify_submission">>
    IN IF ~page.apply_button THEN Returned(FALSE, opened, 0)
       ELSE IF page.login_page /\ ~page.login_ok THEN Returned(FALSE, logged, 0)
       ELSE IF page.raises THEN Returned(FALSE, filled, 0)
       ELSE Returned(verify_submission(page), sent, 0)

RECURSIVE complete_easy_apply_one_more(_, _, _)
\* plausible slip: the step cap is off by one
complete_easy_apply_one_more(page, step, trace) ==
    IF step > max_steps
    THEN Returned("false", trace, step)
    ELSE LET filled == trace \o <<"fill_form", "upload_document", "find_control">>
         IN IF step + 1 > Len(page.controls)
            THEN Returned("false", filled, step + 1)
            ELSE IF is_submit_label(page.controls[step + 1])
            THEN IF page.raises
                 THEN Returned("raised", filled, step + 1)
                 ELSE Returned("true", Append(filled, "click_submit"), step + 1)
            ELSE complete_easy_apply_one_more(page, step + 1, Append(filled, "click_next"))

RECURSIVE complete_easy_apply(_, _, _)
\* LinkedInHandler._complete_easy_apply from iteration `step` (0-based) on;
\* ret is "true", "false" or "raised"
complete_easy_apply(page, step, trace) ==
    IF step >= max_steps
    THEN Returned("false", trace, step)
    ELSE LET filled == trace \o <<"fill_form", "upload_document", "find_control">>
         IN IF step + 1 > Len(page.controls)
            THEN Returned("false", filled, step + 1)
            ELSE IF is_submit_label(page.controls[step + 1])
            THEN IF page.raises
                 THEN Returned("raised", filled, step + 1)
                 ELSE Returned("true", Append(filled, "click_submit"), step + 1)
            ELSE complete_easy_apply(page, step + 1, Append(filled, "click_next"))

\* LinkedInHandler.apply_to_job
linkedin_apply_to_job(page) ==
    LET opened == <<"navigate_to", "find_easy_apply">>
    IN IF ~page.apply_button THEN Returned(FALSE, opened, 0)
       ELSE LET easy == complete_easy_apply(page, 0, Append(opened, "click_apply"))
            IN Returned(easy.ret = "true", easy.trace, easy.iterations)

apply_to_job(board, page) ==
    IF board = "linkedin" THEN linkedin_apply_to_job(page) ELSE form_apply_to_job(page)

\* handler.apply_to_job(job_url, cv_path) on a page of the board
ApplyToJob ==
    /\ \E board \in Handlers :
          \E page \in Pages(board) :
             LET out == apply_to_job(board, page)
             IN answer' = [op |-> "apply_to_job", board |-> board, page |-> page,
                           ret |-> out.ret, trace |-> out.trace,
                           iterations |-> out.iterations,
                           easy |-> IF board = "linkedin" /\ page.apply_button
                                    THEN complete_easy_apply(page, 0, <<>>).ret
                                    ELSE "none"]
    /\ UNCHANGED <<trackerVars, now, apps, taskVars, solver, search, workers>>

AdapterNext == ApplyToJob

AdapterSpec == GuardInit /\ [][AdapterNext]_vars

\* C23: with a CAPTCHA marker on the page the adapter calls the CAPTCHA
\* gate's bounded wait before it submits the form.
C23_CaptchaGateBeforeSubmit ==
    (answer.op = "apply_to_job" /\ answer.page.captcha
         /\ Has(answer.trace, "click_submit")) =>
        /\ Has(answer.trace, "wait_for_manual_solve")
        /\ Before(answer.trace, "wait_for_manual_solve", "click_submit")

IsCvOf(user, i) ==
    i \in DOMAIN Documents /\ Documents[i].user = user /\ Documents[i].doc_type = "cv"

\* C25: the CV path a task works with belongs to a CV document of the
\* invoking user: the given cv_id when it names a CV of the user, else the
\* user's active CV; with neither the task answers 'No CV found' before the
\* dry-run exit, the handler lookup and any browser start.
C25_CvBelongsToUser ==
    /\ \A user \in Users, cv_id \in CvIds :
           LET cv_path == resolve_cv(user, cv_id)
           IN /\ cv_path # NoCv => IsCvOf(user, cv_path)
              /\ IsCvOf(user, cv_id) => cv_path = cv_id
              /\ (~IsCvOf(user, cv_id) /\ cv_path # NoCv) => Documents[cv_path].is_active
              /\ cv_path = NoCv =>
                     ~\E i \in DOMAIN Documents : IsCvOf(user, i) /\ Documents[i].is_active
    /\ Has(result.trace, "resolve_cv") =>
           IF result.cv_path # NoCv
           THEN IsCvOf(result.user, result.cv_path)
           ELSE /\ result.kind = "return"
                /\ ~result.success
                /\ result.message = "No CV found"
                /\ NoBrowserNoHandler(result)
    /\ Has(result.trace, "apply_to_job") => IsCvOf(result.user, result.cv_path)

C25_Witness ==
    /\ result.user = "u2"
    /\ result.cv_path = 2
    /\ Has(result.trace, "apply_to_job")
    /\ \E r \in BagToSet(apps) : r.user = "u1"

Occurrences(trace, step) == Cardinality({i \in 1..Len(trace) : trace[i] = step})

\* C26: _complete_easy_apply makes at most max_steps = 5 rounds of 'fill,
\* upload, look for the control'; it returns True only in a round whose
\* control is submit-labelled and was clicked, and False when a round finds
\* no control or when five rounds have gone by without a submit control.
C26_EasyApplyBounded ==
    (answer.op = "apply_to_job" /\ answer.board = "linkedin" /\ answer.easy # "none") =>
        LET n == answer.iterations
            controls == answer.page.controls
        IN /\ n <= max_steps
           /\ Occurrences(answer.trace, "find_control") = n
           /\ answer.easy \in {"true", "false", "raised"}
           /\ answer.easy = "true" =>
                  /\ n >= 1
                  /\ is_submit_label(controls[n])
                  /\ answer.trace[Len(answer.trace)] = "click_submit"
                  /\ Occurrences(answer.trace, "click_next") = n - 1
                  /\ answer.ret
           /\ answer.easy = "false" =>
                  /\ ~answer.ret
                  /\ ~Has(answer.trace, "click_submit")
                  /\ \/ (n = Len(controls) + 1
                            /\ Occurrences(answer.trace, "click_next") = n - 1)
                     \/ (n = max_steps /\ Len(controls) = max_steps
                            /\ Occurrences(answer.trace, "click_next") = max_steps)

C26_Witness ==
    /\ answer.op = "apply_to_job"
    /\ answer.board = "linkedin"
    /\ answer.easy = "false"
    /\ answer.iterations = max_steps
    /\ Len(answer.page.controls) = max_steps
    /\ Occurrences(answer.trace, "click_next") = max_steps

\* C27: for every adapter, apply_to_job returns True only if, after the
\* submit step, the page text held one of the confirmation phrases.
C27_SuccessMeansVerified ==
    (answer.op = "apply_to_job" /\ answer.ret) =>
        /\ Before(answer.trace, "click_submit", "verify_submission")
        /\ Has(answer.trace, "verify_submission")
        /\ verify_submission(answer.page)

\* C28: in the PNet, Careers24 and Indeed adapters apply_to_job returns True
\* only if the click on the submit control succeeded.
C28_SuccessMeansSubmitClicked ==
    (answer.op = "apply_to_job" /\ answer.board \in {"pnet", "careers24", "indeed"}
         /\ answer.ret) =>
        answer.page.submit_click

----------------------------------------------------------------------------
(* FormFiller.fill_personal_info and _find_form_field *)

\* the selectors of _find_form_field, in the order tried
Selectors == <<"name", "id", "input[name*=]", "input[id*=]", "input[placeholder*=]",
               "label/following::input">>

\* what one selector meets on the page
\*   missing   find_element raises NoSuchElementException
\*   hidden    an element is found, is_displayed() is False
\*   disabled  it is displayed, is_enabled() is False
\*   ok        it is displayed and enabled
\*   error     the driver raises another exception
Meets == {"missing", "hidden", "disabled", "ok", "error"}

\* the selectors of one field on the pages tried: the selectors after the
\* first MaxVaried find no element, and nothing is read after the selector
\* that ends the search
Tries ==
    {t \in [1..Len(Selectors) -> Meets] :
        /\ \A i \in (MaxVaried + 1)..Len(Selectors) : t[i] = "missing"
        /\ \A i \in 1..Len(Selectors) :
               t[i] \in {"ok", "error"} =>
                   \A j \in (i + 1)..Len(Selectors) : t[j] = "missing"}

\* the same for a field looked up on its own: any one selector from the
\* second on may meet anything, the selectors before it an element not shown
LateTries ==
    {t \in [1..Len(Selectors) -> {"missing", "hidden", "ok", "error"}] :
        \E i \in 2..Len(Selectors) :
            /\ t[1] \in {"missing", "hidden"}
            /\ \A j \in 1..(i - 1) : t[j] = t[1]
            /\ \A j \in (i + 1)..Len(Selectors) : t[j] = "missing"}

\* plausible slip: the first element found is taken, shown or not
find_form_field_any_found(tries, i) ==
    IF \E k \in i..Len(tries) : tries[k] # "missing"
    THEN LET k == CHOOSE k \in i..Len(tries) :
                      tries[k] # "missing" /\ \A j \in i..(k - 1) : tries[j] = "missing"
         IN IF tries[k] = "error"
            THEN [kind |-> "raised", used |-> 0]
            ELSE [kind |-> "element", used |-> k]
    ELSE [kind |-> "none", used |-> 0]

RECURSIVE find_form_field(_, _)
\* _find_form_field from selector i on: the element of the first selector
\* that finds a displayed and enabled one, None, or the exception raised
find_form_field(tries, i) ==
    IF i > Len(tries) THEN [kind |-> "none", used |-> 0]
    ELSE IF tries[i] = "ok" THEN [kind |-> "element", used |-> i]
    ELSE IF tries[i] = "error" THEN [kind |-> "raised", used |-> 0]
    ELSE find_form_field(tries, i + 1)

\* the keys of field_mapping, in the order of the dict
ProfileFields == <<"name", "first_name", "last_name", "email", "phone", "location">>
\* a key given in form_fields that the profile mapping has not
CustomFields == <<"salary">>

Range(seq) == {seq[i] : i \in 1..Len(seq)}

\* the profiles tried: an email or none, the other values empty
Profiles ==
    {p \in [Range(ProfileFields) -> {"", "v"}] :
        \A f \in Range(ProfileFields) : f # "email" => p[f] = ""}

\* form_fields: None (the empty mapping) or values for some fields
FormFields == UNION {[D -> {"", "w"}] : D \in SUBSET {"email", "salary"}}

\* field_mapping after update(form_fields)
field_mapping(profile, form_fields) ==
    [f \in Range(ProfileFields) \cup DOMAIN form_fields |->
        IF f \in DOMAIN form_fields THEN form_fields[f] ELSE profile[f]]

\* the page: what the selectors of each field meet, and whether clear() or
\* send_keys() on the element raises
NothingFound == [i \in 1..Len(Selectors) |-> "missing"]
FormPages ==
    {pg \in [tries : [{"email", "salary"} -> Tries],
             fill_raises : [{"email", "salary"} -> BOOLEAN]] :
        \A f \in {"email", "salary"} :
            pg.fill_raises[f] => \E i \in 1..Len(Selectors) : pg.tries[f][i] = "ok"}

tries_of(page, f) == IF f \in DOMAIN page.tries THEN page.tries[f] ELSE NothingFound

\* lines 57-68 for one field
fill_field(page, f) ==
    LET element == find_form_field(tries_of(page, f), 1)
    IN IF element.kind = "raised" THEN FALSE
       ELSE IF element.kind = "none" THEN FALSE
       ELSE IF page.fill_raises[f] THEN FALSE
       ELSE TRUE

RECURSIVE fill_fields(_, _, _, _, _)
\* lines 52-70: the loop over field_mapping.items(), from key i on; results
\* is the set of the pairs put into the dict
fill_fields(keys, i, mapping, page, results) ==
    IF i > Len(keys) THEN results
    ELSE LET f == keys[i]
         IN IF f \notin DOMAIN mapping \/ mapping[f] = ""
            THEN fill_fields(keys, i + 1, mapping, page, results)
            ELSE fill_fields(keys, i + 1, mapping, page,
                             results \cup {<<f, fill_field(page, f)>>})

fill_personal_info(profile, form_fields, page) ==
    fill_fields(ProfileFields \o CustomFields, 1,
                field_mapping(profile, form_fields), page, {})

\* a FormFiller built on a profile and a page, about to be called with
\* form_fields; a field that is not attempted is left at its default
FillCalls ==
    {c \in [op : {"call_fill_personal_info"}, profile : Profiles,
            form_fields : FormFields, page : FormPages] :
        LET mapping == field_mapping(c.profile, c.form_fields)
        IN \A f \in DOMAIN c.page.tries :
               (f \notin DOMAIN mapping \/ mapping[f] = "") =>
                   (c.page.tries[f] = NothingFound /\ ~c.page.fill_raises[f])}

\* a FormFiller about to look one field up
FindCalls == [op : {"call_find_form_field"}, tries : Tries \cup LateTries]

FormInit ==
    /\ status = "saved"
    /\ applied_date = NoDate
    /\ activities = <<log_application_created("saved")>>
    /\ last = [op |-> "create", old |-> "saved", new |-> "saved", ok |-> TRUE,
               raised |-> FALSE, n0 |-> 0, ad0 |-> NoDate, log0 |-> <<>>,
               resp |-> NoResponse]
    /\ now = 2
    /\ apps = EmptyBag
    /\ task = NoTask
    /\ result = NoResult
    /\ submitted = 0
    /\ answer \in FillCalls \cup FindCalls
    /\ solver = NoSolver
    /\ search = NoSearch
    /\ workers = NoWorkers

\* filler.fill_personal_info(form_fields)
FillPersonalInfo ==
    /\ answer.op = "call_fill_personal_info"
    /\ answer' = [op |-> "fill_personal_info",
                  mapping |-> field_mapping(answer.profile, answer.form_fields),
                  page |-> answer.page,
                  results |-> fill_personal_info(answer.profile, answer.form_fields,
                                                 answer.page)]
    /\ UNCHANGED <<trackerVars, now, apps, taskVars, solver, search, workers>>

\* filler._find_form_field(field_name)
FindFormField ==
    /\ answer.op = "call_find_form_field"
    /\ answer' = [op |-> "_find_form_field", tries |-> answer.tries,
                  found |-> find_form_field(answer.tries, 1)]
    /\ UNCHANGED <<trackerVars, now, apps, taskVars, solver, search, workers>>

FormNext ==
    \/ FillPersonalInfo
    \/ FindFormField

FormSpec == FormInit /\ [][FormNext]_vars

\* the first selector that meets a displayed and enabled element, the
\* selectors before it having met none and raised nothing; 0 when there is none
FirstUsable(tries) ==
    LET usable == {i \in 1..Len(tries) :
                      /\ tries[i] = "ok"
                      /\ \A j \in 1..(i - 1) : tries[j] \in {"missing", "hidden", "disabled"}}
    IN IF usable = {} THEN 0 ELSE CHOOSE i \in usable : \A k \in usable : i <= k

Keys(results) == {pair[1] : pair \in results}

\* C29: fill_personal_info returns (never raises) a mapping whose keys are
\* exactly the fields of the merged mapping with a non-empty value; a field
\* is marked True exactly when a selector, tried in order, met a displayed
\* and enabled element that was then cleared and filled, and that selector is
\* the first such; a field that fails does not stop the fields after it.
C29_FillReportsEachField ==
    /\ answer.op = "_find_form_field" =>
           /\ answer.found.kind = "element" <=> FirstUsable(answer.tries) # 0
           /\ answer.found.used = FirstUsable(answer.tries)
    /\ answer.op = "fill_personal_info" =>
           /\ Keys(answer.results)
                  = {f \in DOMAIN answer.mapping : answer.mapping[f] # ""}
           /\ \A f \in Keys(answer.results) :
                  /\ Cardinality({pair \in answer.results : pair[1] = f}) = 1
                  /\ <<f, TRUE>> \in answer.results
                         <=> /\ FirstUsable(tries_of(answer.page, f)) # 0
                             /\ ~answer.page.fill_raises[f]

C29_Witness ==
    /\ answer.op = "fill_personal_info"
    /\ <<"email", FALSE>> \in answer.results
    /\ <<"salary", TRUE>> \in answer.results
    /\ answer.page.tries["salary"][1] = "hidden"
    /\ answer.page.tries["email"][1] = "error"

----------------------------------------------------------------------------
(* The two transition validators, asked about the same pair *)

\* the statuses of the model and one that neither table knows
AnyStatus == Statuses \cup {"archived"}

\* the answers not yet given
Unasked == "unasked"

\* a pair of statuses about to be put to both validators
ValidatorCalls ==
    [op : {"validators"}, old : AnyStatus, new : AnyStatus,
     tracker : {Unasked}, form : {Unasked}]

ValidatorInit ==
    /\ status = "saved"
    /\ applied_date = NoDate
    /\ activities = <<log_application_created("saved")>>
    /\ last = [op |-> "create", old |-> "saved", new |-> "saved", ok |-> TRUE,
               raised |-> FALSE, n0 |-> 0, ad0 |-> NoDate, log0 |-> <<>>,
               resp |-> NoResponse]
    /\ now = 2
    /\ apps = EmptyBag
    /\ task = NoTask
    /\ result = NoResult
    /\ submitted = 0
    /\ answer \in ValidatorCalls
    /\ solver = NoSolver
    /\ search = NoSearch
    /\ workers = NoWorkers

\* StatusTracker.is_valid_transition(old, new)
AskTracker ==
    /\ answer.op = "validators"
    /\ answer.tracker = Unasked
    /\ answer' = [answer EXCEPT !.tracker =
                      IF is_valid_transition(answer.old, answer.new) THEN "True" ELSE "False"]
    /\ UNCHANGED <<trackerVars, now, apps, taskVars, solver, search, workers>>

\* ApplicationForm._is_valid_transition(old, new)
AskForm ==
    /\ answer.op = "validators"
    /\ answer.form = Unasked
    /\ answer' = [answer EXCEPT !.form =
                      IF form_is_valid_transition(answer.old, answer.new) THEN "True" ELSE "False"]
    /\ UNCHANGED <<trackerVars, now, apps, taskVars, solver, search, workers>>

ValidatorNext ==
    \/ AskTracker
    \/ AskForm

ValidatorSpec == ValidatorInit /\ [][ValidatorNext]_vars

====
